---------------------------- MODULE Spec2Model ----------------------------
(***************************************************************************)
(* Model of src/main.py, the NSE stock news analyzer: the headline matcher *)
(* (extract_symbols_from_news), the performance calculator                 *)
(* (get_stock_performance), the orchestrator (run_analysis) and the two    *)
(* session-state buttons of main().                                        *)
(*                                                                         *)
(* Strings are sequences of one-character strings.  A Python value that    *)
(* may be None is a sequence of length at most one: <<>> is None and <<v>> *)
(* is the value v.  Percentages are integers counting hundredths of a      *)
(* percent (5.0 % is 500), the resolution round(.., 2) leaves.             *)
(***************************************************************************)
EXTENDS Integers, Sequences, FiniteSets, TLC

VARIABLES
    analysis_run,      \* st.session_state.analysis_run
    results_data,      \* st.session_state.results_data (<<>> is None)
    view,              \* main content area of the last finished script run
    pc,                \* position of the running script
    min_return,        \* slider value handed to run_analysis
    results,           \* the dict run_analysis builds and returns
    all_symbols,       \* run_analysis: all_symbols
    news,              \* run_analysis: news
    matched,           \* extract_symbols_from_news: matched, before set()
    recorded,          \* per headline, what the scan appended (<<>>: nothing)
    matched_symbols,   \* run_analysis: matched_symbols
    idx,               \* stage 4 loop index, 1-based
    performance_data,  \* run_analysis: performance_data
    hist,              \* the market-data answer get_stock_performance got
    change,            \* what get_stock_performance returned
    calls,             \* log of the calls run_analysis made in this run
    nse_cache,         \* st.cache_data entry of get_nse_stock_list
    stopped_at,        \* stage whose return statement ended the run (0: none)
    last_click,        \* the button whose script run came last
    last_returned      \* what the last run_analysis since a clear returned

vars == <<analysis_run, results_data, view, pc, min_return, results,
          all_symbols, news, matched, recorded, matched_symbols, idx,
          performance_data, hist, change, calls, nse_cache, stopped_at,
          last_click, last_returned>>

None == <<>>

Some(v) == <<v>>

(***************************************************************************)
(* Strings                                                                 *)
(***************************************************************************)

LowerLetters ==
    <<"a", "b", "c", "d", "e", "f", "g", "h", "i", "j", "k", "l", "m",
      "n", "o", "p", "q", "r", "s", "t", "u", "v", "w", "x", "y", "z">>

UpperLetters ==
    <<"A", "B", "C", "D", "E", "F", "G", "H", "I", "J", "K", "L", "M",
      "N", "O", "P", "Q", "R", "S", "T", "U", "V", "W", "X", "Y", "Z">>

Digits == {"0", "1", "2", "3", "4", "5", "6", "7", "8", "9"}

Range(s) == {s[i] : i \in 1..Len(s)}

IndexOf(c, s) == CHOOSE i \in 1..Len(s) : s[i] = c

\* str.lower() and str.upper(), one ASCII character at a time.
Lower(c) ==
    IF c \in Range(UpperLetters) THEN LowerLetters[IndexOf(c, UpperLetters)]
    ELSE c

Upper(c) ==
    IF c \in Range(LowerLetters) THEN UpperLetters[IndexOf(c, LowerLetters)]
    ELSE c

LowerStr(s) == [i \in 1..Len(s) |-> Lower(s[i])]

UpperStr(s) == [i \in 1..Len(s) |-> Upper(s[i])]

\* The class [a-z0-9] of the regular expression.
IsLowerAlnum(c) == c \in Range(LowerLetters) \cup Digits

RECURSIVE LStrip(_)
LStrip(s) == IF s # <<>> /\ Head(s) = " " THEN LStrip(Tail(s)) ELSE s

RECURSIVE RStrip(_)
RStrip(s) ==
    IF s # <<>> /\ s[Len(s)] = " " THEN RStrip(SubSeq(s, 1, Len(s) - 1))
    ELSE s

\* str.strip()
Strip(s) == RStrip(LStrip(s))

\* re.sub(r'[^a-z0-9]', '', s.lower())
Normalize(s) == SelectSeq(LowerStr(s), IsLowerAlnum)

\* Python's  a in b  on strings; the empty string is in every string.
IsSubstring(a, b) ==
    \E k \in 0..(Len(b) - Len(a)) : SubSeq(b, k + 1, k + Len(a)) = a

SeqMaxLen(s) ==
    IF s = <<>> THEN 0
    ELSE CHOOSE n \in {Len(s[i]) : i \in 1..Len(s)} :
             \A i \in 1..Len(s) : Len(s[i]) <= n

(***************************************************************************)
(* extract_symbols_from_news                                               *)
(***************************************************************************)

RECURSIVE SortedFrom(_, _)
\* The elements of syms of length L, then those of length L-1, ... each
\* group in its original order: what a stable sort by len, reversed, gives.
SortedFrom(syms, L) ==
    SelectSeq(syms, LAMBDA s : Len(s) = L)
        \o (IF L = 0 THEN <<>> ELSE SortedFrom(syms, L - 1))

\* sorted(all_symbols, key=len, reverse=True): the key is the length of the
\* symbol as written, not of its normalized form.
SortedByLen(syms) == SortedFrom(syms, SeqMaxLen(syms))

RECURSIVE ScanFromNoGuard(_, _, _)
\* ScanFrom without the test  if not normalized_symbol: continue.
ScanFromNoGuard(normalized_headline, sorted, i) ==
    IF i > Len(sorted) THEN None
    ELSE IF IsSubstring(Normalize(sorted[i]), normalized_headline)
        THEN Some(sorted[i])
    ELSE ScanFromNoGuard(normalized_headline, sorted, i + 1)

RECURSIVE ScanFromNoBreak(_, _, _)
\* ScanFrom without the break: every matching symbol is appended.
ScanFromNoBreak(normalized_headline, sorted, i) ==
    IF i > Len(sorted) THEN <<>>
    ELSE LET normalized_symbol == Normalize(sorted[i])
             here == IF /\ normalized_symbol # <<>>
                        /\ IsSubstring(normalized_symbol, normalized_headline)
                         THEN <<sorted[i]>>
                     ELSE <<>>
         IN  here \o ScanFromNoBreak(normalized_headline, sorted, i + 1)

RECURSIVE ScanFrom(_, _, _)
\* The inner loop from position i on: the first symbol whose non-empty
\* normalized form is in the normalized headline, or nothing.
ScanFrom(normalized_headline, sorted, i) ==
    IF i > Len(sorted) THEN None
    ELSE LET normalized_symbol == Normalize(sorted[i])
         IN  IF normalized_symbol = <<>>
                 THEN ScanFrom(normalized_headline, sorted, i + 1)
             ELSE IF IsSubstring(normalized_symbol, normalized_headline)
                 THEN Some(sorted[i])
             ELSE ScanFrom(normalized_headline, sorted, i + 1)

ScanSymbols(headline, sorted) == ScanFrom(Normalize(headline), sorted, 1)

\* What each headline appends to matched, by position in news_list.
RecordedFor(news_list, syms) ==
    [h \in 1..Len(news_list) |-> ScanSymbols(news_list[h], SortedByLen(syms))]

RECURSIVE Flatten(_)
Flatten(ss) == IF ss = <<>> THEN <<>> ELSE Head(ss) \o Flatten(Tail(ss))

\* The list matched when the outer loop has ended.
MatchedList(news_list, syms) == Flatten(RecordedFor(news_list, syms))

IsInjective(s) == \A i, j \in 1..Len(s) : s[i] = s[j] => i = j

\* list(set(xs)): the distinct elements in an order the hash layout picks.
ListOfSet(xs) ==
    {s \in [1..Cardinality(Range(xs)) -> Range(xs)] : IsInjective(s)}

(***************************************************************************)
(* get_nse_stock_list, get_positive_news, is_valid_symbol                  *)
(***************************************************************************)

\* What pd.read_csv(url) and df['SYMBOL'] did: fails is an exception in the
\* try block (network, parse, a missing column, a cell that is no string),
\* column the SYMBOL cells otherwise.
get_nse_stock_list(answer) ==
    IF answer.fails THEN <<>>
    ELSE [i \in 1..Len(answer.column) |-> UpperStr(Strip(answer.column[i]))]

Keywords ==
    { <<"o", "r", "d", "e", "r">>,
      <<"p", "r", "o", "f", "i", "t">>,
      <<"a", "c", "q", "u", "i", "s", "i", "t", "i", "o", "n">>,
      <<"l", "a", "u", "n", "c", "h">>,
      <<"c", "o", "n", "t", "r", "a", "c", "t">>,
      <<"g", "a", "i", "n", "s">>,
      <<"r", "i", "s", "e", "s">>,
      <<"b", "o", "o", "s", "t">>,
      <<"e", "x", "p", "a", "n", "d", "s">> }

IsPositive(headline) ==
    \E word \in Keywords : IsSubstring(word, LowerStr(headline))

\* fails is an exception of requests.get, raise_for_status or the parsing;
\* page is the stripped text of the h2 of each li.clearfix otherwise.
get_positive_news(answer) ==
    IF answer.fails THEN <<>>
    ELSE SelectSeq(answer.page, IsPositive)

\* What yf.Ticker(..).info did: an exception, or a dict that may hold
\* 'regularMarketPrice', whose value may be None.
is_valid_symbol(answer) ==
    IF answer.fails THEN FALSE
    ELSE answer.has_key /\ ~answer.price_is_none

(***************************************************************************)
(* get_stock_performance                                                   *)
(***************************************************************************)

\* n / d for d > 0, rounded to the nearest integer, halves to the even one.
RoundHalfEven(n, d) ==
    LET q == n \div d
        r == n % d
    IN  IF 2 * r < d THEN q
        ELSE IF 2 * r > d THEN q + 1
        ELSE IF q % 2 = 0 THEN q
        ELSE q + 1

\* get_stock_performance with iloc[-1] and iloc[-2] exchanged.
get_stock_performance_swapped(answer) ==
    IF answer.fails THEN None
    ELSE IF Len(answer.closes) < 2 THEN None
    ELSE LET yesterday_close == answer.closes[Len(answer.closes)]
             today_close == answer.closes[Len(answer.closes) - 1]
         IN  IF yesterday_close = 0 THEN None
             ELSE Some(RoundHalfEven((today_close - yesterday_close) * 10000,
                                     yesterday_close))

\* answer is what stock.history(period="2d") did: an exception, or the
\* closes, oldest first.  The result counts hundredths of a percent:
\* round(((today - yesterday) / yesterday) * 100, 2) times one hundred.
get_stock_performance(answer) ==
    IF answer.fails THEN None
    ELSE IF Len(answer.closes) < 2 THEN None
    ELSE LET yesterday_close == answer.closes[Len(answer.closes) - 1]
             today_close == answer.closes[Len(answer.closes)]
         IN  IF yesterday_close = 0 THEN None
             ELSE Some(RoundHalfEven((today_close - yesterday_close) * 10000,
                                     yesterday_close))

(***************************************************************************)
(* Stage 5 of run_analysis                                                 *)
(***************************************************************************)

IsNonIncreasing(df) ==
    \A i \in 1..(Len(df) - 1) : df[i].Change >= df[i + 1].Change

\* df.sort_values(by="Change %", ascending=False): kind is left at its
\* default, 'quicksort', which pandas documents as not stable, so rows of
\* equal change come out in any order.
SortValuesDescending(df) ==
    {[i \in 1..Len(df) |-> df[p[i]]] :
        p \in {q \in [1..Len(df) -> 1..Len(df)] :
                  /\ IsInjective(q)
                  /\ IsNonIncreasing([i \in 1..Len(df) |-> df[q[i]]])}}

\* Screen with >= in place of >.
ScreenInclusive(data, threshold) ==
    SortValuesDescending(SelectSeq(data, LAMBDA r : r.Change >= threshold))

\* result_df[result_df["Change %"] > min_return_threshold].sort_values(..)
Screen(data, threshold) ==
    SortValuesDescending(SelectSeq(data, LAMBDA r : r.Change > threshold))

(***************************************************************************)
(* The script: main() and run_analysis.  One script run is started by a    *)
(* click and runs to its end before the next click is taken.               *)
(***************************************************************************)

SliderMin == 100

SliderMax == 2000

SliderStep == 50

SliderDefault == 500

SliderValues ==
    {v \in SliderMin..SliderMax : (v - SliderMin) % SliderStep = 0}

\* The slider positions the model tries.
Thresholds == {v \in SliderValues : v \in {SliderDefault, SliderMax}}

DefaultResults ==
    [symbols_loaded |-> 0, news_found |-> 0, matched_symbols |-> <<>>,
     performance_data |-> <<>>, filtered_stocks |-> <<>>,
     news_headlines |-> <<>>]

\* The answers of the NSE archive the model tries.
NseAnswers ==
    { [fails |-> TRUE, column |-> <<>>],
      [fails |-> FALSE, column |-> <<>>],
      [fails |-> FALSE,
       column |-> << <<" ", "t", "c", "s">>, <<"I", "N", "F", "Y">>,
                     <<"M", "&", "M">> >>] }

TcsOrder ==
    <<"T", "C", "S", " ", "b", "a", "g", "s", " ", "o", "r", "d", "e", "r">>

RatesSteady ==
    <<"R", "a", "t", "e", "s", " ", "s", "t", "e", "a", "d", "y">>

InfyProfit ==
    <<"I", "n", "f", "y", " ", "p", "r", "o", "f", "i", "t", " ", "u", "p">>

TcsGains == <<"T", "C", "S", " ", "g", "a", "i", "n", "s">>

ProfitSeason ==
    <<"P", "r", "o", "f", "i", "t", " ", "s", "e", "a", "s", "o", "n">>

\* The answers of the MoneyControl page the model tries.
NewsAnswers ==
    { [fails |-> TRUE, page |-> <<>>],
      [fails |-> FALSE, page |-> <<>>],
      [fails |-> FALSE, page |-> <<RatesSteady>>],
      [fails |-> FALSE, page |-> <<ProfitSeason>>],
      [fails |-> FALSE,
       page |-> <<TcsOrder, RatesSteady, InfyProfit, TcsGains>>] }

InfoAnswers ==
    [fails : BOOLEAN, has_key : BOOLEAN, price_is_none : BOOLEAN]

\* The price histories the pipeline is run on.
HistoryAnswers ==
    { [fails |-> TRUE, closes |-> <<>>],
      [fails |-> FALSE, closes |-> <<100>>],
      [fails |-> FALSE, closes |-> <<0, 50>>],
      [fails |-> FALSE, closes |-> <<100, 105>>],
      [fails |-> FALSE, closes |-> <<100, 106>>],
      [fails |-> FALSE, closes |-> <<100, 110>>],
      [fails |-> FALSE, closes |-> <<105, 100>>] }

Call(fn, arg, ret) == [fn |-> fn, arg |-> arg, ret |-> ret]

\* The main content area: the results view when
\* st.session_state.analysis_run and st.session_state.results_data, the
\* welcome message (None) otherwise.  The dict has six keys and is truthy.
Render(run, data) == IF run /\ data # None THEN data ELSE None

Init ==
    /\ analysis_run = FALSE
    /\ results_data = None
    /\ view = None
    /\ pc = "idle"
    /\ min_return = SliderDefault
    /\ results = DefaultResults
    /\ all_symbols = <<>>
    /\ news = <<>>
    /\ matched = <<>>
    /\ recorded = <<>>
    /\ matched_symbols = <<>>
    /\ idx = 1
    /\ performance_data = <<>>
    /\ hist = None
    /\ change = None
    /\ calls = <<>>
    /\ nse_cache = None
    /\ stopped_at = 0
    /\ last_click = "none"
    /\ last_returned = None

\* main(): the Run Analysis button is clicked; lines up to the call of
\* run_analysis and the dict it starts from.
ClickRun ==
    /\ pc = "idle"
    /\ analysis_run' = TRUE
    /\ \E m \in Thresholds : min_return' = m
    /\ results' = DefaultResults
    /\ calls' = <<>>
    /\ stopped_at' = 0
    /\ last_click' = "run"
    /\ pc' = "stage1"
    /\ UNCHANGED <<results_data, view, all_symbols, news, matched, recorded,
                   matched_symbols, idx, performance_data, hist, change,
                   nse_cache, last_returned>>

\* Stage1 without the test  if not all_symbols: return results.
Stage1NoGate ==
    /\ pc = "stage1"
    /\ \E ret \in (IF nse_cache # None THEN {nse_cache[1]}
                   ELSE {get_nse_stock_list(a) : a \in NseAnswers}) :
          /\ all_symbols' = ret
          /\ nse_cache' = Some(ret)
          /\ calls' = Append(calls, Call("get_nse_stock_list", <<>>, ret))
          /\ results' = [results EXCEPT !.symbols_loaded = Len(ret)]
    /\ pc' = "stage2"
    /\ UNCHANGED <<analysis_run, results_data, view, min_return, news,
                   matched, recorded, matched_symbols, idx, performance_data,
                   hist, change, stopped_at, last_click, last_returned>>

\* run_analysis, stage 1.  st.cache_data hands back the stored list while
\* the entry lives, and stores what the function returned otherwise.
Stage1 ==
    /\ pc = "stage1"
    /\ \E ret \in (IF nse_cache # None THEN {nse_cache[1]}
                   ELSE {get_nse_stock_list(a) : a \in NseAnswers}) :
          /\ all_symbols' = ret
          /\ nse_cache' = Some(ret)
          /\ calls' = Append(calls, Call("get_nse_stock_list", <<>>, ret))
          /\ IF ret = <<>>
                 THEN /\ pc' = "return"
                      /\ stopped_at' = 1
                      /\ results' = results
                 ELSE /\ pc' = "stage2"
                      /\ stopped_at' = stopped_at
                      /\ results' = [results EXCEPT !.symbols_loaded = Len(ret)]
    /\ UNCHANGED <<analysis_run, results_data, view, min_return, news,
                   matched, recorded, matched_symbols, idx, performance_data,
                   hist, change, last_click, last_returned>>

\* The cache entry's ttl runs out; only the next stage 1 can tell.
CacheExpire ==
    /\ pc = "idle"
    /\ nse_cache # None
    /\ nse_cache' = None
    /\ UNCHANGED <<analysis_run, results_data, view, pc, min_return, results,
                   all_symbols, news, matched, recorded, matched_symbols,
                   idx, performance_data, hist, change, calls, stopped_at,
                   last_click, last_returned>>

\* Stage2 that leaves results['news_found'] and results['news_headlines']
\* unset.
Stage2NoCount ==
    /\ pc = "stage2"
    /\ \E a \in NewsAnswers :
          LET ret == get_positive_news(a)
          IN  /\ news' = ret
              /\ calls' = Append(calls, Call("get_positive_news", <<>>, ret))
              /\ IF ret = <<>>
                     THEN pc' = "return" /\ stopped_at' = 2
                     ELSE pc' = "stage3" /\ stopped_at' = stopped_at
    /\ UNCHANGED <<analysis_run, results_data, view, min_return, results,
                   all_symbols, matched, recorded, matched_symbols, idx,
                   performance_data, hist, change, nse_cache, last_click,
                   last_returned>>

\* run_analysis, stage 2.
Stage2 ==
    /\ pc = "stage2"
    /\ \E a \in NewsAnswers :
          LET ret == get_positive_news(a)
          IN  /\ news' = ret
              /\ calls' = Append(calls, Call("get_positive_news", <<>>, ret))
              /\ IF ret = <<>>
                     THEN /\ pc' = "return"
                          /\ stopped_at' = 2
                          /\ results' = results
                     ELSE /\ pc' = "stage3"
                          /\ stopped_at' = stopped_at
                          /\ results' = [results EXCEPT
                                            !.news_found = Len(ret),
                                            !.news_headlines = ret]
    /\ UNCHANGED <<analysis_run, results_data, view, min_return, all_symbols,
                   matched, recorded, matched_symbols, idx, performance_data,
                   hist, change, nse_cache, last_click, last_returned>>

\* run_analysis, stage 3, with the whole of extract_symbols_from_news.
Stage3 ==
    /\ pc = "stage3"
    /\ recorded' = RecordedFor(news, all_symbols)
    /\ matched' = MatchedList(news, all_symbols)
    /\ \E ret \in ListOfSet(MatchedList(news, all_symbols)) :
          /\ matched_symbols' = ret
          /\ calls' = Append(calls,
                             Call("extract_symbols_from_news", <<>>, ret))
          /\ IF ret = <<>>
                 THEN /\ pc' = "return"
                      /\ stopped_at' = 3
                      /\ results' = results
                 ELSE /\ pc' = "stage4"
                      /\ stopped_at' = stopped_at
                      /\ results' = [results EXCEPT !.matched_symbols = ret]
    /\ idx' = 1
    /\ performance_data' = <<>>
    /\ UNCHANGED <<analysis_run, results_data, view, min_return, all_symbols,
                   news, hist, change, nse_cache, last_click, last_returned>>

\* Stage4Validate that goes on to the scoring whatever the test said.
Stage4ValidateIgnored ==
    /\ pc = "stage4"
    /\ idx <= Len(matched_symbols)
    /\ \E a \in InfoAnswers :
          calls' = Append(calls, Call("is_valid_symbol", matched_symbols[idx],
                                      <<is_valid_symbol(a)>>))
    /\ pc' = "stage4_score"
    /\ UNCHANGED <<analysis_run, results_data, view, min_return, results,
                   all_symbols, news, matched, recorded, matched_symbols,
                   idx, performance_data, hist, change, nse_cache,
                   stopped_at, last_click, last_returned>>

\* Stage 4, one turn of the loop up to the validity test.
Stage4Validate ==
    /\ pc = "stage4"
    /\ idx <= Len(matched_symbols)
    /\ \E a \in InfoAnswers :
          LET valid == is_valid_symbol(a)
          IN  /\ calls' = Append(calls, Call("is_valid_symbol",
                                             matched_symbols[idx], <<valid>>))
              /\ IF valid
                     THEN pc' = "stage4_score" /\ idx' = idx
                     ELSE pc' = "stage4" /\ idx' = idx + 1
    /\ UNCHANGED <<analysis_run, results_data, view, min_return, results,
                   all_symbols, news, matched, recorded, matched_symbols,
                   performance_data, hist, change, nse_cache, stopped_at,
                   last_click, last_returned>>

\* Stage 4, the rest of the turn for a symbol that passed the test.
Stage4Score ==
    /\ pc = "stage4_score"
    /\ \E a \in HistoryAnswers :
          LET ret == get_stock_performance(a)
          IN  /\ hist' = Some(a)
              /\ change' = ret
              /\ calls' = Append(calls, Call("get_stock_performance",
                                             matched_symbols[idx], ret))
              /\ performance_data' =
                     IF ret # None
                         THEN Append(performance_data,
                                     [Stock |-> matched_symbols[idx],
                                      Change |-> ret[1]])
                     ELSE performance_data
    /\ idx' = idx + 1
    /\ pc' = "stage4"
    /\ UNCHANGED <<analysis_run, results_data, view, min_return, results,
                   all_symbols, news, matched, recorded, matched_symbols,
                   nse_cache, stopped_at, last_click, last_returned>>

\* The loop has ended: stage 5 and the last return statement.
Stage5 ==
    /\ pc = "stage4"
    /\ idx > Len(matched_symbols)
    /\ IF performance_data # <<>>
           THEN \E filtered \in Screen(performance_data, min_return) :
                    results' = [results EXCEPT
                                   !.performance_data = performance_data,
                                   !.filtered_stocks = filtered]
           ELSE results' = results
    /\ pc' = "return"
    /\ stopped_at' = 5
    /\ UNCHANGED <<analysis_run, results_data, view, min_return, all_symbols,
                   news, matched, recorded, matched_symbols, idx,
                   performance_data, hist, change, calls, nse_cache,
                   last_click, last_returned>>

\* run_analysis has returned: main() stores the dict and renders the main
\* content area; the locals of the script run are gone.
FinishRun ==
    /\ pc = "return"
    /\ results_data' = Some(results)
    /\ last_returned' = Some(results)
    /\ view' = Render(analysis_run, results_data')
    /\ pc' = "idle"
    /\ results' = DefaultResults
    /\ all_symbols' = <<>>
    /\ news' = <<>>
    /\ matched' = <<>>
    /\ recorded' = <<>>
    /\ matched_symbols' = <<>>
    /\ idx' = 1
    /\ performance_data' = <<>>
    /\ hist' = None
    /\ change' = None
    /\ calls' = <<>>
    /\ stopped_at' = 0
    /\ UNCHANGED <<analysis_run, min_return, nse_cache, last_click>>

\* ClickClear that resets analysis_run alone.
ClickClearKeepsData ==
    /\ pc = "idle"
    /\ analysis_run' = FALSE
    /\ last_click' = "clear"
    /\ view' = Render(analysis_run', results_data)
    /\ UNCHANGED <<results_data, last_returned, pc, min_return, results,
                   all_symbols, news, matched, recorded, matched_symbols,
                   idx, performance_data, hist, change, calls, nse_cache,
                   stopped_at>>

\* main(): the Clear Results button is clicked; st.rerun() then runs the
\* script again with no button clicked, which renders the main content area.
ClickClear ==
    /\ pc = "idle"
    /\ analysis_run' = FALSE
    /\ results_data' = None
    /\ last_returned' = None
    /\ last_click' = "clear"
    /\ view' = Render(analysis_run', results_data')
    /\ UNCHANGED <<pc, min_return, results, all_symbols, news, matched,
                   recorded, matched_symbols, idx, performance_data, hist,
                   change, calls, nse_cache, stopped_at>>

Next ==
    \/ ClickRun
    \/ Stage1
    \/ CacheExpire
    \/ Stage2
    \/ Stage3
    \/ Stage4Validate
    \/ Stage4Score
    \/ Stage5
    \/ FinishRun
    \/ ClickClear

Spec == Init /\ [][Next]_vars

(***************************************************************************)
(* The matcher on its own: any headlines, any ticker universe.             *)
(***************************************************************************)

MaxSymbols == 2

MaxNews == 2

Tickers ==
    { <<>>, <<"&">>, <<"A">>, <<"B">>, <<"A", "&">>, <<"A", "B">>,
      <<"B", "1">>, <<"A", "&", "B">> }

Headlines ==
    { <<>>, <<"-">>, <<"a", "B">>, <<"b", " ", "A">>, <<"A", "-", "b", "1">> }

SeqsUpTo(S, n) == UNION {[1..k -> S] : k \in 0..n}

\* No script has run yet and no call is in progress.
Fresh ==
    /\ analysis_run = FALSE
    /\ results_data = None
    /\ view = None
    /\ min_return = SliderDefault
    /\ results = DefaultResults
    /\ idx = 1
    /\ performance_data = <<>>
    /\ calls = <<>>
    /\ nse_cache = None
    /\ stopped_at = 0
    /\ last_click = "none"
    /\ last_returned = None

InitMatch ==
    /\ Fresh
    /\ pc = "call"
    /\ all_symbols \in SeqsUpTo(Tickers, MaxSymbols)
    /\ news \in SeqsUpTo(Headlines, MaxNews)
    /\ matched = <<>>
    /\ recorded = <<>>
    /\ matched_symbols = <<>>
    /\ hist = None
    /\ change = None

\* One call extract_symbols_from_news(news, all_symbols).
MatchCall ==
    /\ pc = "call"
    /\ recorded' = RecordedFor(news, all_symbols)
    /\ matched' = MatchedList(news, all_symbols)
    /\ matched_symbols' \in ListOfSet(MatchedList(news, all_symbols))
    /\ pc' = "returned"
    /\ UNCHANGED <<analysis_run, results_data, view, min_return, results,
                   all_symbols, news, idx, performance_data, hist, change,
                   calls, nse_cache, stopped_at, last_click, last_returned>>

NextMatch == MatchCall

SpecMatch == InitMatch /\ [][NextMatch]_vars

(***************************************************************************)
(* The performance calculator on its own: any answer of the price lookup.  *)
(***************************************************************************)

MaxHistory == 2

Prices == {0, 3, 4, 32, 33, 100, 105, 3000, 3180}

InitPerf ==
    /\ Fresh
    /\ pc = "call"
    /\ all_symbols = <<>>
    /\ news = <<>>
    /\ matched = <<>>
    /\ recorded = <<>>
    /\ matched_symbols = <<>>
    /\ \E a \in [fails : BOOLEAN, closes : SeqsUpTo(Prices, MaxHistory)] :
          hist = Some(a)
    /\ change = None

\* One call get_stock_performance(symbol) that got the answer hist.
PerfCall ==
    /\ pc = "call"
    /\ change' = get_stock_performance(hist[1])
    /\ pc' = "returned"
    /\ UNCHANGED <<analysis_run, results_data, view, min_return, results,
                   all_symbols, news, matched, recorded, matched_symbols,
                   idx, performance_data, hist, calls, nse_cache,
                   stopped_at, last_click, last_returned>>

NextPerf == PerfCall

SpecPerf == InitPerf /\ [][NextPerf]_vars

(***************************************************************************)
(* Stages 4 and 5 of one run whose stage 3 found three candidates.         *)
(***************************************************************************)

Universe ==
    << <<"T", "C", "S">>, <<"I", "N", "F", "Y">>, <<"M", "&", "M">> >>

MmGains == <<"M", "&", "M", " ", "g", "a", "i", "n", "s">>

ThreeHeadlines == <<TcsOrder, InfyProfit, MmGains>>

\* The state run_analysis is in when its stage 3 has returned Universe's
\* three symbols for ThreeHeadlines, in a first script run.
InitStage4 ==
    /\ analysis_run = TRUE
    /\ results_data = None
    /\ view = None
    /\ pc = "stage4"
    /\ min_return \in Thresholds
    /\ all_symbols = Universe
    /\ news = ThreeHeadlines
    /\ recorded = RecordedFor(ThreeHeadlines, Universe)
    /\ matched = MatchedList(ThreeHeadlines, Universe)
    /\ matched_symbols \in ListOfSet(MatchedList(ThreeHeadlines, Universe))
    /\ results = [DefaultResults EXCEPT
                     !.symbols_loaded = Len(Universe),
                     !.news_found = Len(ThreeHeadlines),
                     !.news_headlines = ThreeHeadlines,
                     !.matched_symbols = matched_symbols]
    /\ idx = 1
    /\ performance_data = <<>>
    /\ hist = None
    /\ change = None
    /\ calls = << Call("get_nse_stock_list", <<>>, Universe),
                  Call("get_positive_news", <<>>, ThreeHeadlines),
                  Call("extract_symbols_from_news", <<>>, matched_symbols) >>
    /\ nse_cache = Some(Universe)
    /\ stopped_at = 0
    /\ last_click = "run"
    /\ last_returned = None

NextStage4 ==
    \/ Stage4Validate
    \/ Stage4Score
    \/ Stage5
    \/ FinishRun

SpecStage4 == InitStage4 /\ [][NextStage4]_vars

(***************************************************************************)
(* Properties                                                              *)
(***************************************************************************)

NormalizedIn(symbol, headline) ==
    /\ Normalize(symbol) # <<>>
    /\ IsSubstring(Normalize(symbol), Normalize(headline))

\* C1: the ticker recorded for a headline has a normalized form at least as
\* long as that of every ticker of the universe whose non-empty normalized
\* form is a substring of the normalized headline.
LongestNormalizedFormWins ==
    pc = "returned" =>
        \A h \in 1..Len(news) :
            recorded[h] # None =>
                \A u \in Range(all_symbols) :
                    NormalizedIn(u, news[h]) =>
                        Len(Normalize(recorded[h][1])) >= Len(Normalize(u))

\* C2: every returned ticker is in the universe, has a non-empty normalized
\* form, and that form is a substring of some normalized headline.
ReturnedAreLiteralMatches ==
    pc = "returned" =>
        \A i \in 1..Len(matched_symbols) :
            /\ matched_symbols[i] \in Range(all_symbols)
            /\ Normalize(matched_symbols[i]) # <<>>
            /\ \E h \in 1..Len(news) : NormalizedIn(matched_symbols[i], news[h])

\* A call that returned something although the universe holds a ticker that
\* normalizes to nothing and a headline does too.
EmptyFormsSkipped ==
    /\ pc = "returned"
    /\ matched_symbols # <<>>
    /\ \E u \in Range(all_symbols) : u # <<>> /\ Normalize(u) = <<>>
    /\ \E h \in 1..Len(news) : news[h] # <<>> /\ Normalize(news[h]) = <<>>

\* C3: each headline appends at most one ticker, and the returned list holds
\* each appended ticker once, so never more tickers than headlines.
OnePerHeadlineEachOnce ==
    pc = "returned" =>
        /\ \A h \in 1..Len(news) : Len(recorded[h]) <= 1
        /\ Len(matched) <= Len(news)
        /\ IsInjective(matched_symbols)
        /\ Range(matched_symbols) = Range(matched)
        /\ Len(matched_symbols) <= Len(news)

\* Two headlines matched the same ticker, which is returned once.
SameTickerTwice ==
    /\ pc = "returned"
    /\ Len(news) = 2
    /\ Len(matched) = 2
    /\ matched[1] = matched[2]
    /\ matched_symbols = <<matched[1]>>

GateOf(k) ==
    CASE k = 1 -> "get_nse_stock_list"
      [] k = 2 -> "get_positive_news"
      [] k = 3 -> "extract_symbols_from_news"

\* C4: the calls of a run come in stage order, and when the ticker list, the
\* news or the matcher returned nothing, no later call was made and
\* run_analysis has returned from that stage.
StagesAreHardGates ==
    \A k \in 1..Len(calls) :
        /\ k <= 3 => calls[k].fn = GateOf(k)
        /\ k > 3 => calls[k].fn \in {"is_valid_symbol", "get_stock_performance"}
        /\ (k <= 3 /\ calls[k].ret = <<>>) =>
               /\ Len(calls) = k
               /\ pc = "return"
               /\ stopped_at = k

\* The news fetch returned nothing and the run has returned.
StoppedAfterEmptyNews ==
    /\ pc = "return"
    /\ Len(calls) = 2
    /\ calls[2].ret = <<>>
    /\ results.symbols_loaded > 0

IsValidation(c) == c.fn = "is_valid_symbol"

IsScoring(c) == c.fn = "get_stock_performance"

InStage4 == pc \in {"stage4", "stage4_score"} \/ (pc = "return" /\ stopped_at = 5)

\* C5: in stage 4 the candidates are validated one after the other, all of
\* them by the time the run returns; get_stock_performance is called for
\* exactly the candidates is_valid_symbol accepted; and performance_data is
\* one record, in call order, per call of it that returned a value.
Stage4ToleratesFailures ==
    InStage4 =>
        LET validations == SelectSeq(calls, IsValidation)
            scorings == SelectSeq(calls, IsScoring)
            accepted == SelectSeq(validations, LAMBDA c : c.ret = <<TRUE>>)
            scored == SelectSeq(scorings, LAMBDA c : c.ret # None)
        IN  /\ Len(validations) = (IF pc = "stage4_score" THEN idx ELSE idx - 1)
            /\ \A i \in 1..Len(validations) :
                   validations[i].arg = matched_symbols[i]
            /\ pc = "return" => Len(validations) = Len(matched_symbols)
            /\ Len(scorings) =
                   (IF pc = "stage4_score" THEN Len(accepted) - 1
                    ELSE Len(accepted))
            /\ \A i \in 1..Len(scorings) : scorings[i].arg = accepted[i].arg
            /\ performance_data =
                   [i \in 1..Len(scored) |->
                       [Stock |-> scored[i].arg, Change |-> scored[i].ret[1]]]

\* A finished stage 4 in which one candidate failed validation, one had no
\* performance and one was recorded.
MixedCandidates ==
    /\ pc = "return"
    /\ stopped_at = 5
    /\ \E i \in 1..Len(calls) : IsValidation(calls[i]) /\ calls[i].ret = <<FALSE>>
    /\ \E i \in 1..Len(calls) : IsScoring(calls[i]) /\ calls[i].ret = None
    /\ Len(performance_data) = 1

\* C6: the screened result holds exactly the accumulated records whose
\* change is greater than the threshold, each once and unaltered, in
\* non-increasing order of change.
ScreenedIsStrictFilterSorted ==
    (pc = "return" /\ stopped_at = 5) =>
        LET filtered == results.filtered_stocks
        IN  /\ Range(filtered) =
                   {r \in Range(performance_data) : r.Change > min_return}
            /\ IsInjective(filtered)
            /\ IsNonIncreasing(filtered)

\* Three records: one at the threshold, left out, and two above it with
\* different changes.
BoundaryRecordLeftOut ==
    /\ pc = "return"
    /\ stopped_at = 5
    /\ Len(performance_data) = 3
    /\ \E r \in Range(performance_data) : r.Change = min_return
    /\ Len(results.filtered_stocks) = 2
    /\ results.filtered_stocks[1].Change > results.filtered_stocks[2].Change

\* C7 as stated: None for fewer than two closes, a zero earlier close or a
\* failed lookup, and otherwise exactly
\* (latest_close - previous_close) / previous_close * 100.
PerformanceIsExactQuotient ==
    pc = "returned" =>
        LET a == hist[1]
            n == Len(a.closes)
        IN  IF a.fails \/ n < 2 \/ a.closes[n - 1] = 0
                THEN change = None
            ELSE /\ change # None
                 /\ change[1] * a.closes[n - 1] =
                        (a.closes[n] - a.closes[n - 1]) * 10000

Abs(x) == IF x < 0 THEN -x ELSE x

\* C7 as amended: None in the three cases, and otherwise the quotient rounded
\* to two decimal places, that is, a count of hundredths of a percent no
\* further than half a hundredth from the quotient.
PerformanceIsRoundedQuotient ==
    pc = "returned" =>
        LET a == hist[1]
            n == Len(a.closes)
        IN  IF a.fails \/ n < 2 \/ a.closes[n - 1] = 0
                THEN change = None
            ELSE /\ change # None
                 /\ 2 * Abs(change[1] * a.closes[n - 1]
                            - (a.closes[n] - a.closes[n - 1]) * 10000)
                        <= a.closes[n - 1]

\* Closes (3, 4): a third more, returned as 33.33.
RoundedThird ==
    /\ pc = "returned"
    /\ ~hist[1].fails
    /\ hist[1].closes = <<3, 4>>
    /\ change = Some(3333)

\* The stage a returned dict tells of.
StageToldBy(r) ==
    IF r.symbols_loaded = 0 THEN 1
    ELSE IF r.news_found = 0 THEN 2
    ELSE IF r.matched_symbols = <<>> THEN 3
    ELSE 5

\* C8: the dict run_analysis returns tells the stage at which the run
\* stopped, so returns from different stages never look alike.
ReturnTellsStage ==
    pc = "return" => StageToldBy(results) = stopped_at

\* A run that reached stage 5 and screened everything out.
EmptyScreenAtStage5 ==
    /\ pc = "return"
    /\ stopped_at = 5
    /\ results.performance_data # <<>>
    /\ results.filtered_stocks = <<>>

SessionStateConsistent ==
    /\ results_data # None => analysis_run
    /\ (pc = "idle" /\ last_click = "clear") =>
           /\ ~analysis_run
           /\ results_data = None
           /\ view = None
    /\ view # None =>
           /\ analysis_run
           /\ view = results_data
           /\ results_data = last_returned

\* The results view after a run that screened something in.
ResultsViewShown ==
    /\ pc = "idle"
    /\ last_click = "run"
    /\ view # None
    /\ view[1].filtered_stocks # <<>>

=============================================================================
